---- MODULE Spec2Model ----
(***************************************************************************)
(* Model of the traefik response-body-rewrite middleware (src/main.go):    *)
(* New parses the configuration, ServeHTTP wraps the real response writer  *)
(* in a responseWriter, runs the next handler against it, and then writes  *)
(* the (possibly rewritten) buffered body to the real response writer.     *)
(*                                                                         *)
(* Text is modelled as sequences of one-character strings, so that         *)
(* parsing and replacing are computed, not assumed.                        *)
(***************************************************************************)
EXTENDS Integers, Sequences, FiniteSets, TLC

VARIABLES
    config,     \* the *Config handed to New
    pc,         \* "new" | "failed" | "idle" | "serving" | "done"
    handler,    \* New returned a non-nil handler
    err,        \* New returned a non-nil error
    responses,  \* responsebodyrewrite.responses (parsed), <<>> until New ran
    w,          \* the per-request responseWriter (wrappedWriter)
    rw,         \* the real http.ResponseWriter of the request
    written,    \* history: the chunks the next handler gave to Write, in order
    given,      \* history: the codes responseWriter.WriteHeader was called with
    ncalls,     \* number of calls the next handler made on the wrapper
    hj,         \* history: what each Hijack call on the wrapper returned
    reqs,       \* the requests in flight on one middleware (SpecConc)
    rng,        \* a range set under construction and query (SpecRanges)
    fl          \* history: number of Flush calls made on the wrapper

vars == <<config, pc, handler, err, responses, w, rw, written, given, ncalls,
          hj, reqs, rng, fl>>

----------------------------------------------------------------------------
(* Bounds of the model. *)

MaxResponses == 2   \* entries in Config.Responses
MaxRewrites == 2    \* rewrites in one entry
MaxBody == 2        \* bytes the next handler writes in one request
MaxCalls == 4       \* calls the next handler makes on the wrapper

----------------------------------------------------------------------------
(* Text helpers. *)

Digits == <<"0", "1", "2", "3", "4", "5", "6", "7", "8", "9">>

IsDigit(c) == \E i \in 1..Len(Digits) : Digits[i] = c

DigitVal(c) == (CHOOSE i \in 1..Len(Digits) : Digits[i] = c) - 1

\* strconv.Atoi on an unsigned decimal; -1 stands for the error result.
RECURSIVE AtoiAcc(_, _)
AtoiAcc(s, acc) ==
    IF s = <<>> THEN acc
    ELSE IF ~IsDigit(Head(s)) THEN -1
    ELSE AtoiAcc(Tail(s), acc * Len(Digits) + DigitVal(Head(s)))

Atoi(s) == IF s = <<>> THEN -1 ELSE AtoiAcc(s, 0)

\* strings.Split(s, sep) for a one-character separator.
RECURSIVE SplitAcc(_, _, _)
SplitAcc(s, sep, cur) ==
    IF s = <<>> THEN <<cur>>
    ELSE IF Head(s) = sep THEN <<cur>> \o SplitAcc(Tail(s), sep, <<>>)
    ELSE SplitAcc(Tail(s), sep, Append(cur, Head(s)))

Split(s, sep) == SplitAcc(s, sep, <<>>)

\* strings.TrimSpace.
RECURSIVE TrimLeft(_)
TrimLeft(s) == IF s # <<>> /\ Head(s) = " " THEN TrimLeft(Tail(s)) ELSE s

RECURSIVE TrimRight(_)
TrimRight(s) ==
    IF s # <<>> /\ s[Len(s)] = " " THEN TrimRight(SubSeq(s, 1, Len(s) - 1)) ELSE s

TrimSpace(s) == TrimRight(TrimLeft(s))

RECURSIVE Flatten(_)
Flatten(ss) == IF ss = <<>> THEN <<>> ELSE Head(ss) \o Flatten(Tail(ss))

----------------------------------------------------------------------------
(* HTTPCodeRanges: the status-code range set.                              *)

\* One block: "n" gives [n, n], "lo-hi" gives [lo, hi]; an empty block or a
\* bound that is not a number is an error.
ParseBlock(block) ==
    LET codes == Split(TrimSpace(block), "-")
        lo == Atoi(TrimSpace(codes[1]))
        hi == IF Len(codes) = 1 THEN lo ELSE Atoi(TrimSpace(codes[2]))
    IN  IF Len(codes) > 2 \/ lo < 0 \/ hi < 0
        THEN [err |-> TRUE, range |-> <<0, 0>>]
        ELSE [err |-> FALSE, range |-> <<lo, hi>>]

\* Mutant of NewHTTPCodeRanges: on a bad block the ranges parsed before it
\* are returned with the error.
NewHTTPCodeRangesPartial(strBlocks) ==
    LET blocks == Flatten([i \in 1..Len(strBlocks) |-> Split(strBlocks[i], ",")])
        parsed == [i \in 1..Len(blocks) |-> ParseBlock(blocks[i])]
        bad == {i \in 1..Len(parsed) : parsed[i].err}
    IN  IF bad # {}
        THEN [err |-> TRUE,
              ranges |-> [i \in 1..((CHOOSE b \in bad : \A c \in bad : b <= c) - 1)
                              |-> parsed[i].range]]
        ELSE [err |-> FALSE, ranges |-> [i \in 1..Len(parsed) |-> parsed[i].range]]

\* Mutant of NewHTTPCodeRanges: the ranges are stored in ascending order of
\* their lower bound.
NewHTTPCodeRangesSorted(strBlocks) ==
    LET blocks == Flatten([i \in 1..Len(strBlocks) |-> Split(strBlocks[i], ",")])
        parsed == [i \in 1..Len(blocks) |-> ParseBlock(blocks[i])]
        rank(i) == Cardinality({j \in 1..Len(parsed) :
                                   \/ parsed[j].range[1] < parsed[i].range[1]
                                   \/ parsed[j].range[1] = parsed[i].range[1] /\ j <= i})
    IN  IF \E i \in 1..Len(parsed) : parsed[i].err
        THEN [err |-> TRUE, ranges |-> <<>>]
        ELSE [err |-> FALSE,
              ranges |-> [k \in 1..Len(parsed) |->
                             parsed[CHOOSE i \in 1..Len(parsed) : rank(i) = k].range]]

\* NewHTTPCodeRanges(strBlocks): every string is split on commas; the
\* ranges are kept in the order met; one bad block fails the whole build
\* and yields the nil range set.
NewHTTPCodeRanges(strBlocks) ==
    LET blocks == Flatten([i \in 1..Len(strBlocks) |-> Split(strBlocks[i], ",")])
        parsed == [i \in 1..Len(blocks) |-> ParseBlock(blocks[i])]
    IN  IF \E i \in 1..Len(parsed) : parsed[i].err
        THEN [err |-> TRUE, ranges |-> <<>>]
        ELSE [err |-> FALSE, ranges |-> [i \in 1..Len(parsed) |-> parsed[i].range]]

\* Mutant of Contains: the upper bound of an interval is excluded.
ContainsBelowHigh(ranges, statusCode) ==
    \E i \in 1..Len(ranges) : ranges[i][1] <= statusCode /\ statusCode < ranges[i][2]

\* HTTPCodeRanges.Contains(statusCode).
Contains(ranges, statusCode) ==
    \E i \in 1..Len(ranges) : ranges[i][1] <= statusCode /\ statusCode <= ranges[i][2]

----------------------------------------------------------------------------
(* Regular expressions.  The patterns of the model are literal texts, plus *)
(* the lone "*", which regexp.Compile rejects (nothing to repeat).         *)

CompileFails(regex) == regex = <<"*">>

IsPrefix(p, s) == Len(p) <= Len(s) /\ SubSeq(s, 1, Len(p)) = p

\* The pattern ".*": it matches the whole of a text without newlines, the
\* empty text included.
AnyText == <<".", "*">>

\* Regexp.ReplaceAll(src, repl).  For ".*" the one match that counts is the
\* whole text (the empty match left at the end of a non-empty text is
\* adjacent to the previous match and is not replaced).  For a literal,
\* non-empty pattern: leftmost non-overlapping matches, scanning resumes
\* after each match.
RECURSIVE ReplaceAll(_, _, _)
ReplaceAll(regex, src, repl) ==
    IF regex = AnyText THEN repl
    ELSE IF src = <<>> THEN <<>>
    ELSE IF IsPrefix(regex, src)
         THEN repl \o ReplaceAll(regex, SubSeq(src, Len(regex) + 1, Len(src)), repl)
         ELSE <<Head(src)>> \o ReplaceAll(regex, Tail(src), repl)

----------------------------------------------------------------------------
(* http.Header: a map from key to value list; <<>> is "key absent".        *)

Keys == {"Content-Encoding", "Content-Length", "Last-Modified"}

EmptyHeader == [k \in Keys |-> <<>>]

\* Header.Get: the first value of the key, "" when there is none.
Get(h, k) == IF h[k] = <<>> THEN "" ELSE h[k][1]

\* Header.Set, Header.Del.
Set(h, k, v) == [h EXCEPT ![k] = <<v>>]
Del(h, k) == [h EXCEPT ![k] = <<>>]

\* Mutant of CopyHeaders: the values of src are appended to those of dst.
CopyHeadersAppends(src, dst) == [k \in Keys |-> dst[k] \o src[k]]

\* for k, v := range src { dst[k] = v }: every key of src replaces dst's.
CopyHeaders(src, dst) == [k \in Keys |-> IF src[k] # <<>> THEN src[k] ELSE dst[k]]

----------------------------------------------------------------------------
(* The real http.ResponseWriter (the embedded ResponseWriter of the        *)
(* wrapper), by the contract of the interface: any number of 1xx status    *)
(* writes, then one final status; a body write commits 200 when no final   *)
(* status was written.                                                     *)

StatusOK == 200
InfoLow == 100
InfoHigh == 199

IsInformational(statusCode) == statusCode >= InfoLow /\ statusCode <= InfoHigh

NewSink ==
    [header      |-> EmptyHeader,  \* Header()
     wroteHeader |-> FALSE,        \* a final status was committed
     code        |-> 0,            \* the committed final status
     sent        |-> EmptyHeader,  \* the headers sent with the final status
     calls       |-> <<>>,         \* every WriteHeader call received
     writes      |-> <<>>,         \* every Write call received
     writeErr    |-> FALSE,        \* a Write call returned an error
     hijacker    |-> FALSE,        \* the writer is an http.Hijacker
     hijacked    |-> FALSE,        \* the connection was taken over
     hijacks     |-> 0,            \* number of Hijack calls received
     flusher     |-> FALSE,        \* the writer is an http.Flusher
     flushes     |-> 0]            \* number of Flush calls received

SinkWriteHeader(s, statusCode) ==
    LET logged == [s EXCEPT !.calls = Append(@, [code |-> statusCode, header |-> s.header])]
    IN  IF s.wroteHeader \/ s.hijacked \/ IsInformational(statusCode) THEN logged
        ELSE [logged EXCEPT !.wroteHeader = TRUE, !.code = statusCode, !.sent = s.header]

SinkWrite(s, p) ==
    LET c == IF s.wroteHeader THEN s
             ELSE [s EXCEPT !.wroteHeader = TRUE, !.code = StatusOK, !.sent = s.header]
    IN  [c EXCEPT !.writes = Append(@, p)]

\* A Write call that returns an error: on a hijacked connection nothing is
\* committed or sent, otherwise the failure is one of the transport, after
\* the writer committed the status.
SinkWriteFails(s, p) ==
    IF s.hijacked THEN [s EXCEPT !.writes = Append(@, p), !.writeErr = TRUE]
    ELSE [SinkWrite(s, p) EXCEPT !.writeErr = TRUE]

\* A real writer with or without the http.Hijacker capability.
NewSinkOf(hijacker) == [NewSink EXCEPT !.hijacker = hijacker]

\* A real writer with or without the http.Flusher capability.
NewSinkFlusher(flusher) == [NewSink EXCEPT !.flusher = flusher]

\* Flusher.Flush on the real writer: a writer that has not committed a final
\* status commits 200 with the headers it has, as on its first body write.
SinkFlush(s) ==
    LET c == IF s.wroteHeader \/ s.hijacked THEN s
             ELSE [s EXCEPT !.wroteHeader = TRUE, !.code = StatusOK, !.sent = s.header]
    IN  [c EXCEPT !.flushes = @ + 1]

\* Hijacker.Hijack on the real writer: the connection once, then an error.
SinkHijack(s) ==
    [s   |-> [s EXCEPT !.hijacked = TRUE, !.hijacks = @ + 1],
     ret |-> IF s.hijacked THEN "error" ELSE "conn"]

----------------------------------------------------------------------------
(* responseWriter: the wrapper around the real http.ResponseWriter.        *)

\* Mutant of NewResponseWriter: the code is left at its zero value.
NewResponseWriterZeroCode ==
    [buffer      |-> <<>>,
     headerMap   |-> EmptyHeader,
     headersSent |-> FALSE,
     code        |-> 0]

\* wrappedWriter := &responseWriter{code: http.StatusOK, headerMap: ...}
NewResponseWriter ==
    [buffer      |-> <<>>,
     headerMap   |-> EmptyHeader,
     headersSent |-> FALSE,
     code        |-> StatusOK]

\* responseWriter.Header(): the private map until the final status is
\* committed, the real writer's map after it.
Header(r, s) == IF r.headersSent THEN s.header ELSE r.headerMap

\* Mutant of WithHeader: Header() returns the private map in every state.
WithHeaderAlwaysPrivate(r, s, h) == [w |-> [r EXCEPT !.headerMap = h], rw |-> s]

\* What a mutation of the map Header() returned does to the pair.
WithHeader(r, s, h) ==
    IF r.headersSent THEN [w |-> r, rw |-> [s EXCEPT !.header = h]]
    ELSE [w |-> [r EXCEPT !.headerMap = h], rw |-> s]

\* Mutant of WriteHeader: Content-Length is not deleted at the commit.
WriteHeaderKeepsLength(r, s, statusCode) ==
    IF r.headersSent THEN [w |-> r, rw |-> s]
    ELSE IF IsInformational(statusCode)
    THEN [w  |-> r,
          rw |-> SinkWriteHeader([s EXCEPT !.header = CopyHeaders(Header(r, s), @)],
                                 statusCode)]
    ELSE LET copied == [s EXCEPT !.header = CopyHeaders(Header(r, s), @)]
         IN  [w  |-> [r EXCEPT !.code = statusCode, !.headersSent = TRUE],
              rw |-> SinkWriteHeader(copied, statusCode)]

\* Mutant of WriteHeader: Content-Length is deleted only when a configured
\* entry contains the status code.
WriteHeaderDeletesIfMatched(r, s, statusCode) ==
    IF r.headersSent THEN [w |-> r, rw |-> s]
    ELSE IF IsInformational(statusCode)
    THEN [w  |-> r,
          rw |-> SinkWriteHeader([s EXCEPT !.header = CopyHeaders(Header(r, s), @)],
                                 statusCode)]
    ELSE LET all == CopyHeaders(Header(r, s), s.header)
             bodyRewrited == \E i \in 1..Len(responses) :
                                 Contains(responses[i].status, statusCode)
             copied == [s EXCEPT !.header = IF bodyRewrited
                                            THEN Del(all, "Content-Length") ELSE all]
         IN  [w  |-> [r EXCEPT !.code = statusCode, !.headersSent = TRUE],
              rw |-> SinkWriteHeader(copied, statusCode)]

\* Mutant of WriteHeader: the private headers are not copied at the commit.
WriteHeaderCopiesNothing(r, s, statusCode) ==
    IF r.headersSent THEN [w |-> r, rw |-> s]
    ELSE IF IsInformational(statusCode)
    THEN [w  |-> r,
          rw |-> SinkWriteHeader([s EXCEPT !.header = CopyHeaders(Header(r, s), @)],
                                 statusCode)]
    ELSE LET copied == [s EXCEPT !.header = Del(@, "Content-Length")]
         IN  [w  |-> [r EXCEPT !.code = statusCode, !.headersSent = TRUE],
              rw |-> SinkWriteHeader(copied, statusCode)]

\* Mutant of WriteHeader: the headersSent test is missing, a later call
\* commits again.
WriteHeaderRepeats(r, s, statusCode) ==
    IF IsInformational(statusCode)
    THEN [w  |-> r,
          rw |-> SinkWriteHeader([s EXCEPT !.header = CopyHeaders(Header(r, s), @)],
                                 statusCode)]
    ELSE LET copied == [s EXCEPT !.header = Del(CopyHeaders(Header(r, s), @),
                                                "Content-Length")]
         IN  [w  |-> [r EXCEPT !.code = statusCode, !.headersSent = TRUE],
              rw |-> SinkWriteHeader(copied, statusCode)]

\* Mutant of WriteHeader: no informational branch, a 1xx code is committed
\* like a final one.
WriteHeaderCommitsInformational(r, s, statusCode) ==
    IF r.headersSent THEN [w |-> r, rw |-> s]
    ELSE LET copied == [s EXCEPT !.header = Del(CopyHeaders(Header(r, s), @),
                                                "Content-Length")]
         IN  [w  |-> [r EXCEPT !.code = statusCode, !.headersSent = TRUE],
              rw |-> SinkWriteHeader(copied, statusCode)]

\* responseWriter.WriteHeader(statusCode).
WriteHeader(r, s, statusCode) ==
    IF r.headersSent THEN [w |-> r, rw |-> s]
    ELSE IF IsInformational(statusCode)
    THEN [w  |-> r,
          rw |-> SinkWriteHeader([s EXCEPT !.header = CopyHeaders(Header(r, s), @)],
                                 statusCode)]
    ELSE LET copied == [s EXCEPT !.header = Del(CopyHeaders(Header(r, s), @),
                                                "Content-Length")]
         IN  [w  |-> [r EXCEPT !.code = statusCode, !.headersSent = TRUE],
              rw |-> SinkWriteHeader(copied, statusCode)]

\* Mutant of Write: the bytes are buffered without the implicit WriteHeader.
WriteCommitsNothing(r, s, p) == [w |-> [r EXCEPT !.buffer = @ \o p], rw |-> s]

\* Mutant of Write: the buffer is overwritten, not appended to.
WriteOverwrites(r, s, p) ==
    LET c == IF r.headersSent THEN [w |-> r, rw |-> s] ELSE WriteHeader(r, s, StatusOK)
    IN  [w |-> [c.w EXCEPT !.buffer = p], rw |-> c.rw]

\* Mutant of Write: the bytes are also passed on to the real writer at once.
WriteThrough(r, s, p) ==
    LET c == IF r.headersSent THEN [w |-> r, rw |-> s] ELSE WriteHeader(r, s, StatusOK)
    IN  [w |-> [c.w EXCEPT !.buffer = @ \o p], rw |-> SinkWrite(c.rw, p)]

\* responseWriter.Write(p).
Write(r, s, p) ==
    LET c == IF r.headersSent THEN [w |-> r, rw |-> s] ELSE WriteHeader(r, s, StatusOK)
    IN  [w |-> [c.w EXCEPT !.buffer = @ \o p], rw |-> c.rw]

\* Mutant of Hijack: when the real writer is no http.Hijacker the failure is
\* also reported to the client with a 500 status.
HijackReportsError(r, s) ==
    IF ~s.hijacker
    THEN [w |-> r, rw |-> SinkWriteHeader(s, 500), ret |-> "error"]
    ELSE LET res == SinkHijack(s)
         IN  [w |-> r, rw |-> res.s, ret |-> res.ret]

\* responseWriter.Hijack(): the real writer's Hijack when it is an
\* http.Hijacker, an error and no connection otherwise.
Hijack(r, s) ==
    IF ~s.hijacker
    THEN [w |-> r, rw |-> s, ret |-> "error"]
    ELSE LET res == SinkHijack(s)
         IN  [w |-> r, rw |-> res.s, ret |-> res.ret]

\* Mutant of Flush: the buffered body is passed on to the real writer.
FlushSendsBuffer(r, s) ==
    IF s.flusher
    THEN [w |-> [r EXCEPT !.buffer = <<>>], rw |-> SinkFlush(SinkWrite(s, r.buffer))]
    ELSE [w |-> r, rw |-> s]

\* responseWriter.Flush(): the real writer's Flush when it is an
\* http.Flusher, nothing otherwise.
Flush(r, s) ==
    IF s.flusher THEN [w |-> r, rw |-> SinkFlush(s)] ELSE [w |-> r, rw |-> s]

----------------------------------------------------------------------------
(* New: parsing the configuration.                                         *)

\* The rewrites of one entry: every pattern is compiled, in order.
ParseRewrites(rewrites) ==
    IF \E j \in 1..Len(rewrites) : CompileFails(rewrites[j].Regex)
    THEN [err |-> TRUE, rewrites |-> <<>>]
    ELSE [err |-> FALSE,
          rewrites |-> [j \in 1..Len(rewrites) |->
                           [regex       |-> rewrites[j].Regex,
                            replacement |-> rewrites[j].Replacement]]]

\* One entry of config.Responses: its status ranges, then its rewrites.
ParseResponse(response) ==
    LET httpCodeRanges == NewHTTPCodeRanges(<<response.Status>>)
        rewrites == ParseRewrites(response.Rewrites)
    IN  IF httpCodeRanges.err \/ rewrites.err
        THEN [err |-> TRUE, parsed |-> <<>>]
        ELSE [err |-> FALSE,
              parsed |-> [rewrites |-> rewrites.rewrites,
                          status   |-> httpCodeRanges.ranges]]

\* Mutant of New: an entry that fails to parse is skipped unless it is the
\* first one.
NewChecksFirstEntry(cfg) ==
    LET parsed == [i \in 1..Len(cfg) |-> ParseResponse(cfg[i])]
    IN  IF cfg # <<>> /\ parsed[1].err
        THEN [err |-> TRUE, handler |-> FALSE, responses |-> <<>>]
        ELSE [err |-> FALSE, handler |-> TRUE,
              responses |-> [i \in 1..Len(cfg) |-> parsed[i].parsed]]

\* New(ctx, next, config, name): (handler, error).  The first failure returns
\* (nil, err); otherwise the handler holds every parsed entry, in order.
New(cfg) ==
    LET parsed == [i \in 1..Len(cfg) |-> ParseResponse(cfg[i])]
    IN  IF \E i \in 1..Len(cfg) : parsed[i].err
        THEN [err |-> TRUE, handler |-> FALSE, responses |-> <<>>]
        ELSE [err |-> FALSE, handler |-> TRUE,
              responses |-> [i \in 1..Len(cfg) |-> parsed[i].parsed]]

----------------------------------------------------------------------------
(* ServeHTTP after the next handler returned.                              *)

\* Mutant of ApplyRewrites: every rewrite reads the buffered body instead of
\* the previous rewrite's output, so only the last rewrite shows.
ApplyRewritesUnchained(rewrites, bodyBytes) ==
    IF rewrites = <<>> THEN bodyBytes
    ELSE ReplaceAll(rewrites[Len(rewrites)].regex, bodyBytes,
                    rewrites[Len(rewrites)].replacement)

\* for _, rewrite := range response.rewrites { bodyBytes = ReplaceAll(...) }
RECURSIVE ApplyRewrites(_, _)
ApplyRewrites(rewrites, bodyBytes) ==
    IF rewrites = <<>> THEN bodyBytes
    ELSE ApplyRewrites(Tail(rewrites),
                       ReplaceAll(Head(rewrites).regex, bodyBytes,
                                  Head(rewrites).replacement))

\* Mutant of RewriteBody: the break is missing, every matching entry is applied.
RECURSIVE RewriteBodyNoBreak(_, _, _)
RewriteBodyNoBreak(resps, code, bodyBytes) ==
    IF resps = <<>> THEN bodyBytes
    ELSE IF ~Contains(Head(resps).status, code)
         THEN RewriteBodyNoBreak(Tail(resps), code, bodyBytes)
         ELSE RewriteBodyNoBreak(Tail(resps), code,
                                 ApplyRewrites(Head(resps).rewrites, bodyBytes))

\* for _, response := range r.responses { if !Contains {continue}; ...; break }
RECURSIVE RewriteBody(_, _, _)
RewriteBody(resps, code, bodyBytes) ==
    IF resps = <<>> THEN bodyBytes
    ELSE IF ~Contains(Head(resps).status, code)
         THEN RewriteBody(Tail(resps), code, bodyBytes)
         ELSE ApplyRewrites(Head(resps).rewrites, bodyBytes)

\* Mutant of SkipsRewrite: "identity" is not excepted.
SkipsRewriteOnIdentity(contentEncoding) == contentEncoding # ""

\* The Content-Encoding test that skips the rewrite.
SkipsRewrite(contentEncoding) == contentEncoding # "" /\ contentEncoding # "identity"

\* The body ServeHTTP hands to rw.Write.
FinalBody(resps, r, s) ==
    LET bodyBytes == r.buffer
        contentEncoding == Get(Header(r, s), "Content-Encoding")
    IN  IF SkipsRewrite(contentEncoding) THEN bodyBytes
        ELSE RewriteBody(resps, r.code, bodyBytes)

\* Mutant of FinalWrite: a failed write is tried once more.
FinalWriteRetries(s, bodyBytes, fails) ==
    IF fails THEN SinkWriteFails(SinkWriteFails(s, bodyBytes), bodyBytes)
    ELSE SinkWrite(s, bodyBytes)

\* if _, err := rw.Write(bodyBytes); err != nil { log }: one call, whose
\* error is logged and dropped.
FinalWrite(s, bodyBytes, fails) ==
    IF fails THEN SinkWriteFails(s, bodyBytes) ELSE SinkWrite(s, bodyBytes)

----------------------------------------------------------------------------
(* The inputs of the model.                                                *)

Bytes == {"a", "b"}

\* All texts over Bytes of length at most n.
TextsUpTo(n) == UNION {[1..k -> Bytes] : k \in 0..n}

SeqsUpTo(S, n) == UNION {[1..k -> S] : k \in 0..n}

\* Status specifications: "200-299", "404, 200" and the unparsable "200-abc".
StatusSpecs ==
    { <<"2", "0", "0", "-", "2", "9", "9">>,
      <<"4", "0", "4", ",", " ", "2", "0", "0">>,
      <<"2", "0", "0", "-", "a", "b", "c">> }

\* Rewrites: a -> b, and the pattern "*" that does not compile.
RewriteSet ==
    { [Regex |-> <<"a">>, Replacement |-> <<"b">>],
      [Regex |-> <<"*">>, Replacement |-> <<"a">>] }

ResponseSet ==
    { [Status |-> st, Rewrites |-> rs] :
          st \in StatusSpecs, rs \in SeqsUpTo(RewriteSet, MaxRewrites) }

Configs == SeqsUpTo(ResponseSet, MaxResponses)

\* The configurations requests are served under: up to two entries out of
\* "200-299": a -> b, b -> aa;  "404, 200": b -> aa, a -> b;  "200-299": none.
RuleAB == [Regex |-> <<"a">>, Replacement |-> <<"b">>]
RuleBAA == [Regex |-> <<"b">>, Replacement |-> <<"a", "a">>]

ServeResponses ==
    { [Status   |-> <<"2", "0", "0", "-", "2", "9", "9">>,
       Rewrites |-> <<RuleAB, RuleBAA>>],
      [Status   |-> <<"4", "0", "4", ",", " ", "2", "0", "0">>,
       Rewrites |-> <<RuleBAA, RuleAB>>],
      [Status   |-> <<"2", "0", "0", "-", "2", "9", "9">>,
       Rewrites |-> <<>>] }

ServeConfigs ==
    {<<>>} \cup {<<e>> : e \in ServeResponses}
           \cup {<<e, f>> : e \in ServeResponses, f \in ServeResponses}

\* The configuration requests are served under when the real writer may be
\* hijacked and its writes may fail: "200-299": .* -> b.
RuleAny == [Regex |-> AnyText, Replacement |-> <<"b">>]

SinkConfigs ==
    { << [Status   |-> <<"2", "0", "0", "-", "2", "9", "9">>,
          Rewrites |-> <<RuleAny>>] >> }

\* The status codes the next handler gives to WriteHeader.
Codes == {100, 200, 404}

\* The header values the next handler sets.
HeaderValues ==
    [k \in Keys |->
        CASE k = "Content-Encoding" -> {"", "gzip", "identity"}
          [] k = "Content-Length"   -> {"2"}
          [] k = "Last-Modified"    -> {"Thu"}]

----------------------------------------------------------------------------
(* The state machine.                                                      *)

Init ==
    /\ config \in ServeConfigs
    /\ pc = "new"
    /\ handler = FALSE
    /\ err = FALSE
    /\ responses = <<>>
    /\ w = NewResponseWriter
    /\ rw = NewSink
    /\ written = <<>>
    /\ given = <<>>
    /\ ncalls = 0
    /\ hj = <<>>
    /\ fl = 0
    /\ reqs = <<>>
    /\ rng = <<>>

\* New runs once on the configuration.
NewStep ==
    /\ pc = "new"
    /\ LET res == New(config)
       IN  /\ pc' = IF res.err THEN "failed" ELSE "idle"
           /\ handler' = res.handler
           /\ err' = res.err
           /\ responses' = res.responses
    /\ UNCHANGED <<fl, hj, reqs, rng, config, w, rw, written, given, ncalls>>

\* ServeHTTP up to the call of the next handler: a fresh wrapper around the
\* request's real writer.
ServeBegin ==
    /\ pc \in {"idle", "done"}
    /\ pc' = "serving"
    /\ w' = NewResponseWriter
    /\ rw' = NewSink
    /\ written' = <<>>
    /\ given' = <<>>
    /\ ncalls' = 0
    /\ UNCHANGED <<fl, hj, reqs, rng, config, handler, err, responses>>

Calling == pc = "serving" /\ ncalls < MaxCalls

\* The next handler calls rw.Header().Set(k, v).
HandlerSetHeader ==
    /\ Calling
    /\ \E k \in Keys : \E v \in HeaderValues[k] :
          LET res == WithHeader(w, rw, Set(Header(w, rw), k, v))
          IN  w' = res.w /\ rw' = res.rw
    /\ ncalls' = ncalls + 1
    /\ UNCHANGED <<fl, hj, reqs, rng, config, pc, handler, err, responses, written, given>>

\* The next handler calls rw.Header().Del(k).
HandlerDelHeader ==
    /\ Calling
    /\ \E k \in Keys :
          LET res == WithHeader(w, rw, Del(Header(w, rw), k))
          IN  w' = res.w /\ rw' = res.rw
    /\ ncalls' = ncalls + 1
    /\ UNCHANGED <<fl, hj, reqs, rng, config, pc, handler, err, responses, written, given>>

\* The next handler calls rw.WriteHeader(statusCode).
HandlerWriteHeader ==
    /\ Calling
    /\ \E statusCode \in Codes :
          LET res == WriteHeader(w, rw, statusCode)
          IN  /\ w' = res.w
              /\ rw' = res.rw
              /\ given' = Append(given, statusCode)
    /\ ncalls' = ncalls + 1
    /\ UNCHANGED <<fl, hj, reqs, rng, config, pc, handler, err, responses, written>>

\* The next handler calls rw.Write(p).
HandlerWrite ==
    /\ Calling
    /\ \E p \in TextsUpTo(MaxBody) :
          /\ Len(Flatten(written)) + Len(p) <= MaxBody
          /\ LET res == Write(w, rw, p)
             IN  w' = res.w /\ rw' = res.rw
          /\ written' = Append(written, p)
    /\ given' = IF w.headersSent THEN given ELSE Append(given, StatusOK)
    /\ ncalls' = ncalls + 1
    /\ UNCHANGED <<fl, hj, reqs, rng, config, pc, handler, err, responses>>

\* The next handler returns; ServeHTTP writes the final body.
ServeEnd ==
    /\ pc = "serving"
    /\ pc' = "done"
    /\ rw' = SinkWrite(rw, FinalBody(responses, w, rw))
    /\ UNCHANGED <<fl, hj, reqs, rng, config, handler, err, responses, w, written, given, ncalls>>

Next ==
    \/ NewStep
    \/ ServeBegin
    \/ HandlerSetHeader
    \/ HandlerDelHeader
    \/ HandlerWriteHeader
    \/ HandlerWrite
    \/ ServeEnd

Spec == Init /\ [][Next]_vars

\* Requests against any real writer: one that is or is not an http.Hijacker,
\* and whose body write may fail.
InitSink ==
    /\ config \in SinkConfigs
    /\ pc = "new"
    /\ handler = FALSE
    /\ err = FALSE
    /\ responses = <<>>
    /\ w = NewResponseWriter
    /\ rw = NewSink
    /\ written = <<>>
    /\ given = <<>>
    /\ ncalls = 0
    /\ hj = <<>>
    /\ fl = 0
    /\ reqs = <<>>
    /\ rng = <<>>

ServeBeginSink ==
    /\ pc \in {"idle", "done"}
    /\ pc' = "serving"
    /\ w' = NewResponseWriter
    /\ \E hijacker \in BOOLEAN : rw' = NewSinkOf(hijacker)
    /\ written' = <<>>
    /\ given' = <<>>
    /\ ncalls' = 0
    /\ hj' = <<>>
    /\ UNCHANGED <<fl, reqs, rng, config, handler, err, responses>>

\* The next handler calls rw.(http.Hijacker).Hijack().
HandlerHijack ==
    /\ Calling
    /\ LET res == Hijack(w, rw)
       IN  /\ w' = res.w
           /\ rw' = res.rw
           /\ hj' = Append(hj, res.ret)
    /\ ncalls' = ncalls + 1
    /\ UNCHANGED <<fl, reqs, rng, config, pc, handler, err, responses, written, given>>

\* The next handler returns; ServeHTTP writes the final body, and the write
\* succeeds or fails (it always fails on a hijacked connection).
ServeEndSink ==
    /\ pc = "serving"
    /\ pc' = "done"
    /\ \E fails \in (IF rw.hijacked THEN {TRUE} ELSE BOOLEAN) :
          rw' = FinalWrite(rw, FinalBody(responses, w, rw), fails)
    /\ UNCHANGED <<fl, hj, reqs, rng, config, handler, err, responses, w, written,
                   given, ncalls>>

NextSink ==
    \/ NewStep
    \/ ServeBeginSink
    \/ HandlerSetHeader
    \/ HandlerDelHeader
    \/ HandlerWriteHeader
    \/ HandlerWrite
    \/ HandlerHijack
    \/ ServeEndSink

SpecSink == InitSink /\ [][NextSink]_vars

\* The configuration requests are served under when the handler may flush:
\* "200-299": a -> b, b -> aa.
FlushConfigs ==
    { << [Status   |-> <<"2", "0", "0", "-", "2", "9", "9">>,
          Rewrites |-> <<RuleAB, RuleBAA>>] >> }

\* Requests whose handler may call Flush, against a real writer that is or is
\* not an http.Flusher.
InitFlush ==
    /\ config \in FlushConfigs
    /\ pc = "new"
    /\ handler = FALSE
    /\ err = FALSE
    /\ responses = <<>>
    /\ w = NewResponseWriter
    /\ rw = NewSink
    /\ written = <<>>
    /\ given = <<>>
    /\ ncalls = 0
    /\ hj = <<>>
    /\ fl = 0
    /\ reqs = <<>>
    /\ rng = <<>>

ServeBeginFlush ==
    /\ pc \in {"idle", "done"}
    /\ pc' = "serving"
    /\ w' = NewResponseWriter
    /\ \E flusher \in BOOLEAN : rw' = NewSinkFlusher(flusher)
    /\ written' = <<>>
    /\ given' = <<>>
    /\ ncalls' = 0
    /\ fl' = 0
    /\ UNCHANGED <<hj, reqs, rng, config, handler, err, responses>>

\* The next handler calls rw.(http.Flusher).Flush().
HandlerFlush ==
    /\ Calling
    /\ LET res == Flush(w, rw)
       IN  w' = res.w /\ rw' = res.rw
    /\ fl' = fl + 1
    /\ ncalls' = ncalls + 1
    /\ UNCHANGED <<hj, reqs, rng, config, pc, handler, err, responses, written, given>>

NextFlush ==
    \/ NewStep
    \/ ServeBeginFlush
    \/ HandlerSetHeader
    \/ HandlerDelHeader
    \/ HandlerWriteHeader
    \/ HandlerWrite
    \/ HandlerFlush
    \/ ServeEnd

SpecFlush == InitFlush /\ [][NextFlush]_vars

\* Construction alone, over every configuration within the bounds.
InitNew ==
    /\ config \in Configs
    /\ pc = "new"
    /\ handler = FALSE
    /\ err = FALSE
    /\ responses = <<>>
    /\ w = NewResponseWriter
    /\ rw = NewSink
    /\ written = <<>>
    /\ given = <<>>
    /\ ncalls = 0
    /\ hj = <<>>
    /\ fl = 0
    /\ reqs = <<>>
    /\ rng = <<>>

NextNew == NewStep

SpecNew == InitNew /\ [][NextNew]_vars

----------------------------------------------------------------------------
(* Properties of ServeHTTP's body.                                         *)

\* The body ServeHTTP wrote to the real writer.
SentBody == Flatten(rw.writes)

\* The entries whose ranges contain the captured status code.
Matching == {i \in 1..Len(responses) : Contains(responses[i].status, w.code)}

FirstMatching == CHOOSE i \in Matching : \A j \in Matching : i <= j

\* The Content-Encoding the wrapper's Header() shows when the handler returned.
SeenEncoding == Get(Header(w, rw), "Content-Encoding")

Rewriting == SeenEncoding \in {"", "identity"}

\* rewrites[1], then rewrites[2] on its output, ... up to rewrites[n].
Chain(rewrites, body) ==
    LET chain[k \in 0..Len(rewrites)] ==
            IF k = 0 THEN body
            ELSE ReplaceAll(rewrites[k].regex, chain[k - 1], rewrites[k].replacement)
    IN  chain[Len(rewrites)]

\* C1: first match wins.  When rewriting applies, the body written is the
\* buffered body rewritten by the first entry, in configured order, whose
\* ranges contain the captured code, and by no later entry.
C1_FirstMatchWins ==
    (pc = "done" /\ Rewriting /\ Matching # {}) =>
        SentBody = ApplyRewrites(responses[FirstMatching].rewrites, w.buffer)

\* Two entries contain the code, the later one alone would give another body.
C1_Witness ==
    /\ pc = "done" /\ Rewriting
    /\ \E i \in Matching : \E j \in Matching :
          /\ i < j /\ i = FirstMatching
          /\ ApplyRewrites(responses[j].rewrites, w.buffer) # SentBody
          /\ ApplyRewrites(responses[j].rewrites, SentBody) # SentBody

\* C2: sequential chaining.  Within the matched entry the body written is the
\* left-to-right composition of replace-all over the whole rewrite list, each
\* rewrite reading the output of the one before.
C2_SequentialChaining ==
    (pc = "done" /\ Rewriting /\ Matching # {}) =>
        SentBody = Chain(responses[FirstMatching].rewrites, w.buffer)

\* The second rewrite matched text the first one produced.
C2_Witness ==
    /\ pc = "done" /\ Rewriting /\ Matching # {}
    /\ LET rewrites == responses[FirstMatching].rewrites
       IN  /\ Len(rewrites) = 2
           /\ w.buffer = <<"a">>
           /\ rewrites[1].regex = <<"a">>
           /\ rewrites[2].regex = <<"b">>
           /\ SentBody = <<"a", "a">>

\* C3: no-match pass-through.  When no entry contains the captured code, the
\* bytes written to the real writer are the handler's chunks, concatenated in
\* call order.
C3_NoMatchPassThrough ==
    (pc = "done" /\ Matching = {}) => SentBody = Flatten(written)

\* Entries are configured, none contains the code, two chunks were written,
\* and an entry that does not match would have changed the body.
C3_Witness ==
    /\ pc = "done" /\ Matching = {} /\ responses # <<>>
    /\ Len(written) = 2 /\ written[1] # <<>> /\ written[2] # <<>>
    /\ ApplyRewrites(responses[1].rewrites, w.buffer) # w.buffer
    /\ SentBody = written[1] \o written[2]

\* C4: Content-Encoding guard.  With a Content-Encoding that is neither empty
\* nor "identity" the buffered body is forwarded byte for byte even when an
\* entry matches; with none, "" or "identity" the body is rewritten as for any
\* other response.
C4_ContentEncodingGuard ==
    pc = "done" =>
        IF SeenEncoding \notin {"", "identity"}
        THEN SentBody = w.buffer
        ELSE SentBody = IF Matching = {} THEN w.buffer
                        ELSE Chain(responses[FirstMatching].rewrites, w.buffer)

\* gzip on a response an entry would have rewritten.
C4_Witness ==
    /\ pc = "done" /\ SeenEncoding = "gzip" /\ Matching # {}
    /\ ApplyRewrites(responses[FirstMatching].rewrites, w.buffer) # w.buffer
    /\ SentBody = w.buffer

----------------------------------------------------------------------------
(* Properties of the headers.                                              *)

C6_NoContentLengthEver ==
    w.headersSent => rw.sent["Content-Length"] = <<>>

\* Content-Length set, status 404 committed, no entry contains 404.
C6_Witness ==
    /\ pc = "done" /\ w.headersSent /\ responses # <<>> /\ Matching = {}
    /\ w.headerMap["Content-Length"] # <<>>
    /\ rw.code = w.code

\* What C7 says of a committed response: every other header of the private
\* collection was on the real writer, with its values, at the status write.
C7_AtCommit ==
    w.headersSent =>
        \A k \in Keys \ {"Content-Length"} :
            w.headerMap[k] # <<>> => rw.sent[k] = w.headerMap[k]

\* After the commit the wrapper's WriteHeader and Write, and the rest of
\* ServeHTTP once the handler returned, change no header of the real writer.
C7_AfterCommit ==
    (pc = "serving" /\ w.headersSent
       /\ (given' # given \/ written' # written \/ pc' = "done"))
        => rw'.header = rw.header

\* C7: every header other than Content-Length that the handler set before
\* the final commit is on the real writer's headers, with the same values,
\* when the real writer's status write is called, and stays there after
\* ServeHTTP returns: no later step of the wrapper or of ServeHTTP touches the
\* real writer's headers.
C7_HeadersKept == [] C7_AtCommit /\ [][C7_AfterCommit]_vars

\* Last-Modified was set before the commit and is on the real writer after
\* ServeHTTP returned.
C7_Witness ==
    /\ pc = "done" /\ w.headersSent
    /\ w.headerMap["Last-Modified"] # <<>>
    /\ rw.sent["Last-Modified"] = w.headerMap["Last-Modified"]
    /\ rw.header["Last-Modified"] = w.headerMap["Last-Modified"]

----------------------------------------------------------------------------
(* Properties of New.                                                      *)

\* A status specification with a bound that is not a number.
Unparsable(status) ==
    \E i \in 1..Len(status) : ~IsDigit(status[i]) /\ status[i] \notin {",", "-", " "}

\* A configuration with a failure at some position.
Faulty(cfg) ==
    \E i \in 1..Len(cfg) :
        \/ Unparsable(cfg[i].Status)
        \/ \E j \in 1..Len(cfg[i].Rewrites) : cfg[i].Rewrites[j].Regex = <<"*">>

\* C8: construction is all-or-nothing.  A configuration with an unparsable
\* status or an invalid pattern at any position gives an error and no
\* handler; a handler is returned only when everything parsed, and then it
\* holds every entry and every rewrite.
C8_AllOrNothing ==
    pc # "new" =>
        IF Faulty(config)
        THEN err /\ ~handler /\ responses = <<>>
        ELSE /\ ~err /\ handler
             /\ Len(responses) = Len(config)
             /\ \A i \in 1..Len(config) :
                   Len(responses[i].rewrites) = Len(config[i].Rewrites)

\* The only failure is the last rewrite of the last entry.
C8_Witness ==
    /\ pc = "failed" /\ err /\ ~handler
    /\ Len(config) = 2
    /\ ~Faulty(<<config[1]>>)
    /\ ~Unparsable(config[2].Status)
    /\ Len(config[2].Rewrites) = 2
    /\ config[2].Rewrites[1].Regex # <<"*">>
    /\ config[2].Rewrites[2].Regex = <<"*">>

----------------------------------------------------------------------------
(* Properties of the wrapper's status write.                               *)

NonInformational(codes) == {i \in 1..Len(codes) : ~IsInformational(codes[i])}

\* The status writes the real writer received with a final status.
FinalCalls == {i \in 1..Len(rw.calls) : ~IsInformational(rw.calls[i].code)}

\* The captured code is the first non-informational code WriteHeader got, and
\* the real writer got at most one non-informational status write.
C9_OneCommit ==
    /\ Cardinality(FinalCalls) <= 1
    /\ w.headersSent =>
          /\ NonInformational(given) # {}
          /\ w.code = given[CHOOSE i \in NonInformational(given) :
                               \A j \in NonInformational(given) : i <= j]
          /\ \E i \in FinalCalls : rw.calls[i].code = w.code

\* A WriteHeader call made after the commit changes nothing.
C9_LateCallIsNoOp ==
    (w.headersSent /\ Len(given') > Len(given)) => (w' = w /\ rw' = rw)

\* C9: WriteHeader is one-shot.  Once a non-informational status is
\* committed, every later WriteHeader call, informational or not, leaves the
\* captured code, the headers and the buffer as they were and calls nothing
\* on the real writer; the real writer gets at most one non-informational
\* status write and the captured code is the first one given.
C9_WriteHeaderOneShot == [] C9_OneCommit /\ [][C9_LateCallIsNoOp]_vars

\* A second, different final status was given after the commit.
C9_Witness ==
    /\ w.headersSent
    /\ Len(given) >= 2
    /\ ~IsInformational(given[1]) /\ ~IsInformational(given[2])
    /\ given[2] # given[1]
    /\ w.code = given[1]

\* C10: implicit 200.  A Write made before any non-informational WriteHeader
\* first performs the commit of WriteHeader(200): captured code 200, private
\* headers copied to the real writer (Content-Length deleted), one status
\* write of 200 on the real writer, committed flag set; and then buffers the
\* bytes, writing none to the real writer.
C10_WriteCommits ==
    (~w.headersSent /\ Len(written') > Len(written)) =>
        LET p == written'[Len(written')]
            headers == [k \in Keys |->
                           IF k = "Content-Length" THEN <<>>
                           ELSE IF w.headerMap[k] # <<>> THEN w.headerMap[k]
                           ELSE rw.header[k]]
        IN  /\ w'.code = StatusOK
            /\ w'.headersSent
            /\ w'.headerMap = w.headerMap
            /\ w'.buffer = w.buffer \o p
            /\ rw'.header = headers
            /\ rw'.calls = Append(rw.calls, [code |-> StatusOK, header |-> headers])
            /\ rw'.wroteHeader /\ rw'.code = StatusOK /\ rw'.sent = headers
            /\ rw'.writes = rw.writes

C10_ImplicitOK == [][C10_WriteCommits]_vars

\* A Write came after a 1xx status write and a header, with no final status
\* written before it.
C10_Witness ==
    /\ Len(given) = 2 /\ IsInformational(given[1]) /\ given[2] = StatusOK
    /\ Len(written) = 1 /\ written[1] # <<>>
    /\ w.headerMap["Last-Modified"] # <<>>
    /\ w.headersSent /\ w.code = StatusOK
    /\ w.buffer = written[1]
    /\ Len(rw.calls) = 2 /\ rw.calls[2].code = StatusOK

----------------------------------------------------------------------------
(* Properties of the buffering and of the informational status writes.     *)

\* A step of the real writer receiving a body write.
BodyWriteStep == Len(rw'.writes) > Len(rw.writes)

C11_WriteAfterReturn ==
    BodyWriteStep =>
        /\ pc = "serving" /\ pc' = "done"
        /\ rw.writes = <<>> /\ Len(rw'.writes) = 1
        /\ w.headersSent => (rw.wroteHeader /\ rw.code = w.code /\ rw'.code = w.code)

C11_Buffered ==
    /\ pc = "serving" => (rw.writes = <<>> /\ w.buffer = Flatten(written))
    /\ pc = "done" => Len(rw.writes) = 1

\* C11: buffer-then-flush ordering.  While the next handler runs, no Write on
\* the wrapper reaches the real writer as a body write; the real writer gets
\* exactly one body write per request, in the step in which ServeHTTP resumes
\* after the handler returned, and after the status the wrapper committed;
\* with and without a Content-Encoding that skips the rewrite.
C11_BufferThenFlush == [] C11_Buffered /\ [][C11_WriteAfterReturn]_vars

\* Two non-empty chunks and a status committed through the wrapper, one body
\* write at the end, on the pass-through path.
C11_Witness ==
    /\ pc = "done" /\ SeenEncoding = "gzip"
    /\ Len(written) = 2 /\ written[1] # <<>> /\ written[2] # <<>>
    /\ given[1] = 404 /\ rw.code = 404
    /\ rw.writes = << written[1] \o written[2] >>

\* A step in which WriteHeader was called, not yet committed, with a 1xx code.
InformationalStep ==
    /\ Len(given') > Len(given) /\ written' = written
    /\ ~w.headersSent
    /\ IsInformational(given'[Len(given')])

C12_Forwarded ==
    InformationalStep =>
        LET statusCode == given'[Len(given')]
        IN  /\ rw'.header = CopyHeaders(w.headerMap, rw.header)
            /\ rw'.calls = Append(rw.calls, [code |-> statusCode, header |-> rw'.header])
            /\ ~rw'.wroteHeader /\ rw'.writes = rw.writes
            /\ w' = w
            /\ ~w'.headersSent /\ w'.code = StatusOK

\* C12: informational pass-through.  A WriteHeader with a code in 100..199
\* before the final commit is forwarded at once to the real writer with that
\* code and with the private headers copied onto the real writer; it leaves
\* headersSent false, the captured code at its default 200 and the buffer as
\* it was, so more informational writes and one final status may follow.
C12_InformationalPassThrough == [][C12_Forwarded]_vars

\* Two informational writes carrying a private header, then the final status.
C12_Witness ==
    /\ given = <<100, 100, 404>>
    /\ w.headersSent /\ w.code = 404
    /\ Len(rw.calls) = 3
    /\ rw.calls[1].code = 100 /\ rw.calls[1].header["Last-Modified"] = <<"Thu">>
    /\ rw.calls[2].code = 100 /\ rw.calls[3].code = 404
    /\ rw.code = 404

----------------------------------------------------------------------------
(* Properties of Header().                                                 *)

\* A step in which the next handler changed the map Header() returned.
HeaderStep ==
    /\ pc = "serving" /\ ncalls' = ncalls + 1
    /\ given' = given /\ written' = written

C19_MutatesOneMap ==
    HeaderStep =>
        IF w.headersSent
        THEN w' = w /\ [rw' EXCEPT !.header = rw.header] = rw
        ELSE rw' = rw /\ [w' EXCEPT !.headerMap = w.headerMap] = w

C19_NothingBeforeStatus ==
    (pc = "serving" /\ given = <<>>) => rw.header = EmptyHeader

\* C19: Header() returns the wrapper's private map in every state before the
\* final status commit and the real writer's own map in every state after it:
\* a mutation before the commit changes the private map only, one after it the
\* real writer's map only; so nothing set before the commit is on the real
\* writer until a status write, informational or final, copied it.
C19_HeaderSwitch == [] C19_NothingBeforeStatus /\ [][C19_MutatesOneMap]_vars

\* A header set before the commit and one set after it: the first reached the
\* real writer by the commit's copy, the second was put on it directly and is
\* not in the private map.
C19_Witness ==
    /\ pc = "serving" /\ w.headersSent
    /\ w.headerMap["Content-Encoding"] = <<"gzip">>
    /\ w.headerMap["Last-Modified"] = <<>>
    /\ rw.header["Content-Encoding"] = <<"gzip">>
    /\ rw.header["Last-Modified"] = <<"Thu">>
    /\ rw.sent["Last-Modified"] = <<>>

----------------------------------------------------------------------------
(* Properties of Hijack and of a failing body write.                       *)

\* A step in which the next handler called Hijack on the wrapper.
HijackStep == Len(hj') > Len(hj)

C13_Delegates ==
    HijackStep =>
        /\ w' = w
        /\ IF rw.hijacker
           THEN /\ rw' = [rw EXCEPT !.hijacked = TRUE, !.hijacks = @ + 1]
                /\ hj'[Len(hj')] = IF rw.hijacked THEN "error" ELSE "conn"
           ELSE /\ hj'[Len(hj')] = "error"
                /\ rw' = rw

\* C13: Hijack.  When the real writer is an http.Hijacker the call is handed
\* to it and its result returned; when it is none the call returns an error
\* and no connection, the wrapper's buffer, code, headers and headersSent stay
\* as they were and nothing is called on the real writer.
C13_Hijack == [][C13_Delegates]_vars

\* Hijack failed on a writer that is no http.Hijacker, after a header was set,
\* a status committed and a body buffered.
C13_Witness ==
    /\ pc = "serving" /\ ~rw.hijacker /\ hj = <<"error">>
    /\ w.headersSent /\ w.code = 404 /\ w.buffer # <<>>
    /\ w.headerMap["Last-Modified"] = <<"Thu">>
    /\ rw.hijacks = 0 /\ Len(rw.calls) = 1

C14_Failure ==
    rw.writeErr =>
        /\ pc = "done"
        /\ Len(rw.writes) = 1
        /\ handler /\ responses = New(config).responses

C14_NoRetry ==
    (BodyWriteStep /\ rw'.writeErr) =>
        /\ pc = "serving" /\ pc' = "done"
        /\ Len(rw'.writes) = Len(rw.writes) + 1
        /\ rw'.writes[1] = FinalBody(responses, w, rw)
        /\ responses' = responses /\ config' = config

\* C14: a failing final body write.  When the body write to the real writer
\* fails ServeHTTP makes no second attempt, returns to its caller, and leaves
\* the parsed configuration as New built it; whether the body was rewritten
\* or passed through because of its Content-Encoding.
C14_WriteFailure == [] C14_Failure /\ [][C14_NoRetry]_vars

\* The write of a rewritten body failed on a connection that was not hijacked.
C14_Witness ==
    /\ pc = "done" /\ rw.writeErr /\ ~rw.hijacked
    /\ Rewriting /\ Matching # {}
    /\ w.buffer = <<"a">> /\ rw.writes = << <<"b">> >>

\* The entries whose ranges contain 200.
MatchingOK == {i \in 1..Len(responses) : Contains(responses[i].status, StatusOK)}

\* C20: the default status.  When the next handler returns without a call of
\* WriteHeader with a non-informational code and without a call of Write, the
\* code used to select the entry is 200 and the buffer is empty, and ServeHTTP
\* still makes its one body write, with the rewrites of the first entry
\* containing 200 (if there is one and rewriting applies) applied to the
\* empty body.
C20_DefaultStatus ==
    (pc = "done" /\ NonInformational(given) = {}) =>
        /\ w.code = StatusOK /\ w.buffer = <<>>
        /\ Len(rw.writes) = 1
        /\ rw.writes[1] =
              IF Rewriting /\ MatchingOK # {}
              THEN Chain(responses[CHOOSE i \in MatchingOK :
                                       \A j \in MatchingOK : i <= j].rewrites, <<>>)
              ELSE <<>>

\* The handler made an informational status write only; the entry for 200 put
\* a body where there was none.
C20_Witness ==
    /\ pc = "done" /\ given = <<100>> /\ written = <<>>
    /\ ~w.headersSent /\ ~rw.writeErr
    /\ rw.writes = << <<"b">> >>
    /\ rw.code = 200

----------------------------------------------------------------------------
(* The range set on its own: NewHTTPCodeRanges on a status specification,  *)
(* then Contains on the set it built.                                      *)

\* "200-299", "400-499"
TwoRanges ==
    << <<"2", "0", "0", "-", "2", "9", "9">>,
       <<"4", "0", "0", "-", "4", "9", "9">> >>

\* "200-299,400-499"
TwoRangesJoined ==
    << <<"2", "0", "0", "-", "2", "9", "9", ",", "4", "0", "0", "-", "4", "9", "9">> >>

\* "200-299", "400", "450-499"
Mixed ==
    << <<"2", "0", "0", "-", "2", "9", "9">>,
       <<"4", "0", "0">>,
       <<"4", "5", "0", "-", "4", "9", "9">> >>

\* "200-299,400,450-499"
MixedJoined ==
    << <<"2", "0", "0", "-", "2", "9", "9", ",", "4", "0", "0", ",", "4", "5", "0", "-", "4", "9", "9">> >>

\* "200"
Single ==
    << <<"2", "0", "0">> >>

\* "400-499", "200-299" (not in ascending order)
Descending ==
    << <<"4", "0", "0", "-", "4", "9", "9">>,
       <<"2", "0", "0", "-", "2", "9", "9">> >>

\* "200-299", "250" (the second inside the first)
Overlapping ==
    << <<"2", "0", "0", "-", "2", "9", "9">>,
       <<"2", "5", "0">> >>

\* "404, 200"
Spaced ==
    << <<"4", "0", "4", ",", " ", "2", "0", "0">> >>

\* "200-abc"
BadHigh ==
    << <<"2", "0", "0", "-", "a", "b", "c">> >>

\* "abc-200"
BadLow ==
    << <<"a", "b", "c", "-", "2", "0", "0">> >>

\* "200,299foo"
BadSecond ==
    << <<"2", "0", "0", ",", "2", "9", "9", "f", "o", "o">> >>

\* "200-299", "abc-200" (a good string before the bad one)
BadLater ==
    << <<"2", "0", "0", "-", "2", "9", "9">>,
       <<"a", "b", "c", "-", "2", "0", "0">> >>

\* The specifications a range set is built from.
RangeSpecs ==
    {TwoRanges, TwoRangesJoined, Mixed, MixedJoined, Single, Descending,
     Overlapping, Spaced, BadHigh, BadLow, BadSecond, BadLater}

\* The intervals each well-formed specification stands for, as the tests and
\* the README give them.
ExpectedRanges ==
    TwoRanges :> <<<<200, 299>>, <<400, 499>>>>
    @@ TwoRangesJoined :> <<<<200, 299>>, <<400, 499>>>>
    @@ Mixed :> <<<<200, 299>>, <<400, 400>>, <<450, 499>>>>
    @@ MixedJoined :> <<<<200, 299>>, <<400, 400>>, <<450, 499>>>>
    @@ Single :> <<<<200, 200>>>>
    @@ Descending :> <<<<400, 499>>, <<200, 299>>>>
    @@ Overlapping :> <<<<200, 299>>, <<250, 250>>>>
    @@ Spaced :> <<<<404, 404>>, <<200, 200>>>>

\* The status codes Contains is asked about.
RangeCodes == {100, 199, 200, 250, 299, 300, 399, 400, 450, 499, 500}

RangeScenario(strBlocks, code) ==
    [strBlocks |-> strBlocks,   \* the argument of NewHTTPCodeRanges
     code      |-> code,        \* the argument of Contains
     stage     |-> "spec",      \* "spec" | "built" | "asked"
     err       |-> FALSE,       \* NewHTTPCodeRanges returned an error
     ranges    |-> <<>>,        \* the HTTPCodeRanges it returned (<<>>: nil)
     contains  |-> FALSE]       \* what Contains returned

InitRanges ==
    /\ config = <<>>
    /\ pc = "new"
    /\ handler = FALSE
    /\ err = FALSE
    /\ responses = <<>>
    /\ w = NewResponseWriter
    /\ rw = NewSink
    /\ written = <<>>
    /\ given = <<>>
    /\ ncalls = 0
    /\ hj = <<>>
    /\ fl = 0
    /\ reqs = <<>>
    /\ rng \in {RangeScenario(strBlocks, code) : strBlocks \in RangeSpecs, code \in RangeCodes}

\* status, err := NewHTTPCodeRanges(strBlocks)
BuildRanges ==
    /\ rng.stage = "spec"
    /\ LET res == NewHTTPCodeRanges(rng.strBlocks)
       IN  rng' = [rng EXCEPT !.stage = "built", !.err = res.err, !.ranges = res.ranges]
    /\ UNCHANGED <<config, pc, handler, err, responses, w, rw, written, given,
                   ncalls, hj, reqs, fl>>

\* response.status.Contains(code), on a set that was built without error.
AskContains ==
    /\ rng.stage = "built" /\ ~rng.err
    /\ rng' = [rng EXCEPT !.stage = "asked", !.contains = Contains(rng.ranges, rng.code)]
    /\ UNCHANGED <<config, pc, handler, err, responses, w, rw, written, given,
                   ncalls, hj, reqs, fl>>

NextRanges ==
    \/ BuildRanges
    \/ AskContains

SpecRanges == InitRanges /\ [][NextRanges]_vars

----------------------------------------------------------------------------
(* Properties of the range set.                                            *)

\* C16: Contains(c) is true exactly when c is within the inclusive bounds of
\* a stored interval; for the set built from 200-299 and 400-499 it is true
\* for 200 <= c <= 299 and for 400 <= c <= 499 (200, 299, 400 and 499
\* included) and false for every other c (100, 199, 300 and 500 included).
C16_Contains ==
    rng.stage = "asked" =>
        /\ rng.contains <=>
              \E i \in 1..Len(rng.ranges) :
                  rng.code >= rng.ranges[i][1] /\ rng.code <= rng.ranges[i][2]
        /\ rng.strBlocks \in {TwoRanges, TwoRangesJoined} =>
              (rng.contains <=> \/ (200 <= rng.code /\ rng.code <= 299)
                                \/ (400 <= rng.code /\ rng.code <= 499))

\* The upper bound of the second interval is contained.
C16_Witness ==
    /\ rng.stage = "asked" /\ rng.strBlocks = TwoRanges
    /\ rng.code = 499 /\ rng.contains

\* The characters of a well-formed specification.
RangeChars == {Digits[i] : i \in 1..Len(Digits)} \cup {"-", ",", " "}

\* Some string of the specification has a character no number, range or list
\* is written with.
NonNumeric(strBlocks) ==
    \E i \in 1..Len(strBlocks) : \E j \in 1..Len(strBlocks[i]) :
        strBlocks[i][j] \notin RangeChars

\* C17: building a range set from a specification in which some block has a
\* lower or upper bound that is not a number ("200-abc", "abc-200",
\* "200,299foo") fails with an error and yields the nil range set, never the
\* ranges parsed before the bad block.
C17_ParseError ==
    (rng.stage # "spec" /\ NonNumeric(rng.strBlocks)) =>
        /\ rng.err /\ rng.ranges = <<>>
        /\ rng.stage = "built"

\* The bad block came after a good one.
C17_Witness ==
    /\ rng.stage = "built" /\ rng.strBlocks \in {BadSecond, BadLater}
    /\ rng.err /\ rng.ranges = <<>>

\* strings.Join(strBlocks, ","): the specification as one string.
RECURSIVE Join(_)
Join(strBlocks) ==
    IF Len(strBlocks) = 1 THEN strBlocks[1]
    ELSE strBlocks[1] \o <<",">> \o Join(Tail(strBlocks))

\* C18: construction is shape-independent and order-preserving.  One string
\* with commas and the same blocks as several strings give the same interval
\* sequence; a single integer n becomes [n, n]; the intervals are stored in the
\* order met, neither merged nor sorted ("200-299", "400", "450-499" gives
\* [200, 299], [400, 400], [450, 499]).
C18_ShapeAndOrder ==
    rng.stage # "spec" =>
        /\ LET joined == NewHTTPCodeRanges(<<Join(rng.strBlocks)>>)
           IN  rng.err = joined.err /\ rng.ranges = joined.ranges
        /\ rng.strBlocks \in DOMAIN ExpectedRanges =>
              ~rng.err /\ rng.ranges = ExpectedRanges[rng.strBlocks]

\* Three strings, the single integer in the middle, and the same intervals as
\* for the one-string form.
C18_Witness ==
    /\ rng.stage = "built" /\ rng.strBlocks = Mixed
    /\ rng.ranges = <<<<200, 299>>, <<400, 400>>, <<450, 499>>>>
    /\ rng.ranges = NewHTTPCodeRanges(MixedJoined).ranges

----------------------------------------------------------------------------
(* Several requests in flight on one middleware.  Each call of ServeHTTP   *)
(* runs on its own goroutine; the calls of one request's handler on its    *)
(* wrapper interleave with those of the others.  The parsed responses are  *)
(* the only state the requests share.                                      *)

MaxConcCalls == 2   \* calls one handler makes on its wrapper

Requests == {"r1", "r2"}

\* Mutant of WrapperOf: the wrapper is kept in the middleware and used by
\* every request.
WrapperOfMiddleware(q) == "r1"

\* wrappedWriter := &responseWriter{...}: the wrapper a request uses is the
\* one its own call of ServeHTTP allocated.
WrapperOf(q) == q

\* The calls a handler makes on its wrapper.
ConcCalls ==
    { [op |-> "Set", k |-> "Content-Encoding", v |-> "gzip"],
      [op |-> "Set", k |-> "Last-Modified", v |-> "Thu"],
      [op |-> "WriteHeader", statusCode |-> 100],
      [op |-> "WriteHeader", statusCode |-> 404],
      [op |-> "Write", p |-> <<"a">>] }

\* One call on the wrapper r in front of the real writer s.
Apply(call, r, s) ==
    CASE call.op = "Set"         -> WithHeader(r, s, Set(Header(r, s), call.k, call.v))
      [] call.op = "WriteHeader" -> WriteHeader(r, s, call.statusCode)
      [] call.op = "Write"       -> Write(r, s, call.p)

\* The configuration the concurrent requests are served under:
\* "200-299": a -> b, b -> aa.
ConcConfigs ==
    { << [Status   |-> <<"2", "0", "0", "-", "2", "9", "9">>,
          Rewrites |-> <<RuleAB, RuleBAA>>] >> }

InitConc ==
    /\ config \in ConcConfigs
    /\ pc = "new"
    /\ handler = FALSE
    /\ err = FALSE
    /\ responses = <<>>
    /\ w = NewResponseWriter
    /\ rw = NewSink
    /\ written = <<>>
    /\ given = <<>>
    /\ ncalls = 0
    /\ hj = <<>>
    /\ fl = 0
    /\ rng = <<>>
    /\ reqs = [pc    |-> [q \in Requests |-> "idle"],
               ws    |-> [q \in Requests |-> NewResponseWriter],
               rws   |-> [q \in Requests |-> NewSink],
               trace |-> [q \in Requests |-> <<>>],  \* history: the calls made
               mixed |-> FALSE]  \* history: a call was made between two calls
                                 \* of another request

\* ServeHTTP of request q up to the call of the next handler.
ConcBegin(q) ==
    /\ pc = "idle" /\ reqs.pc[q] = "idle"
    /\ reqs' = [reqs EXCEPT !.pc[q] = "serving",
                            !.ws[WrapperOf(q)] = NewResponseWriter,
                            !.rws[q] = NewSink]
    /\ UNCHANGED <<config, pc, handler, err, responses, w, rw, written, given,
                   ncalls, hj, rng, fl>>

\* The handler of request q makes one call on its wrapper.
ConcCall(q) ==
    /\ reqs.pc[q] = "serving" /\ Len(reqs.trace[q]) < MaxConcCalls
    /\ \E call \in ConcCalls :
          LET res == Apply(call, reqs.ws[WrapperOf(q)], reqs.rws[q])
          IN  reqs' = [reqs EXCEPT
                          !.ws[WrapperOf(q)] = res.w,
                          !.rws[q] = res.rw,
                          !.trace[q] = Append(@, call),
                          !.mixed = @ \/ \E o \in Requests \ {q} :
                                            /\ reqs.pc[o] = "serving"
                                            /\ reqs.trace[o] # <<>>]
    /\ UNCHANGED <<config, pc, handler, err, responses, w, rw, written, given,
                   ncalls, hj, rng, fl>>

\* The handler of request q returns; ServeHTTP writes the final body.
ConcEnd(q) ==
    /\ reqs.pc[q] = "serving"
    /\ reqs' = [reqs EXCEPT
                   !.pc[q] = "done",
                   !.rws[q] = SinkWrite(@, FinalBody(responses, reqs.ws[WrapperOf(q)],
                                                     reqs.rws[q]))]
    /\ UNCHANGED <<config, pc, handler, err, responses, w, rw, written, given,
                   ncalls, hj, rng, fl>>

NextConc ==
    \/ NewStep
    \/ \E q \in Requests : ConcBegin(q)
    \/ \E q \in Requests : ConcCall(q)
    \/ \E q \in Requests : ConcEnd(q)

SpecConc == InitConc /\ [][NextConc]_vars

----------------------------------------------------------------------------
(* Properties of concurrent requests.                                      *)

\* The wrapper and the real writer of a request served alone, after the calls
\* of trace.
RECURSIVE Alone(_)
Alone(trace) ==
    IF trace = <<>> THEN [w |-> NewResponseWriter, rw |-> NewSink]
    ELSE LET before == Alone(SubSeq(trace, 1, Len(trace) - 1))
         IN  Apply(trace[Len(trace)], before.w, before.rw)

\* The real writer of a request served alone, when ServeHTTP has returned.
AloneDone(trace) ==
    LET at == Alone(trace)
    IN  SinkWrite(at.rw, FinalBody(responses, at.w, at.rw))

C15_AsIfAlone ==
    \A q \in Requests :
        /\ reqs.pc[q] = "serving" => reqs.rws[q] = Alone(reqs.trace[q]).rw
        /\ reqs.pc[q] = "done" =>
              LET alone == AloneDone(reqs.trace[q])
              IN  /\ reqs.rws[q].code = alone.code
                  /\ reqs.rws[q].sent = alone.sent
                  /\ reqs.rws[q].writes = alone.writes
                  /\ reqs.rws[q] = alone

C15_ConfigKept ==
    pc # "new" => (responses' = responses /\ config' = config)

\* C15: request isolation.  In every interleaving of the requests served by
\* one middleware, the status committed for a request, the headers sent with
\* it and the body written are those the request would get served alone, and
\* no request changes the parsed configuration.
C15_Isolation == [] C15_AsIfAlone /\ [][C15_ConfigKept]_vars

\* Both requests are done, their calls were interleaved, and they got
\* different statuses, headers and bodies.
C15_Witness ==
    /\ reqs.mixed
    /\ reqs.pc["r1"] = "done" /\ reqs.pc["r2"] = "done"
    /\ reqs.rws["r1"].code = 200 /\ reqs.rws["r1"].writes = << <<"a", "a">> >>
    /\ reqs.rws["r2"].code = 404 /\ reqs.rws["r2"].writes = << <<>> >>
    /\ reqs.rws["r2"].sent["Last-Modified"] = <<"Thu">>
    /\ reqs.rws["r1"].sent["Last-Modified"] = <<>>

----------------------------------------------------------------------------
(* Properties of the headers the status writes carry.                      *)

\* A step in which the wrapper committed the final status.
CommitStep == ~w.headersSent /\ w'.headersSent

\* The keys of the private collection at a status write.
PrivateKeys == {k \in Keys : w.headerMap[k] # <<>>}

\* The claim as it is worded: at the final commit every key of the private
\* collection, Content-Length included, is sent with its private value list.
C21_EveryKey ==
    CommitStep => \A k \in PrivateKeys : rw'.sent[k] = w.headerMap[k]

\* C21 as worded: no header duplication, for each key of the private
\* collection.  After any number of informational status writes and the final
\* commit each key of the private collection is on the real writer with
\* exactly the private value list.
C21_AsWorded == [][C21_EveryKey]_vars

C21_Informational ==
    InformationalStep =>
        \A k \in PrivateKeys :
            rw'.calls[Len(rw'.calls)].header[k] = w.headerMap[k]

C21_Final ==
    CommitStep =>
        /\ \A k \in PrivateKeys \ {"Content-Length"} :
              /\ rw'.sent[k] = w.headerMap[k]
              /\ rw'.calls[Len(rw'.calls)].header[k] = w.headerMap[k]
        /\ rw'.sent["Content-Length"] = <<>>

\* C21, amended: no header duplication.  Every status write, informational or
\* final, carries each key of the private collection with exactly the private
\* value list (same values, same multiplicity), however many informational
\* writes copied it before; except that the final commit carries no
\* Content-Length at all.
C21_NoDuplication == [][C21_Informational /\ C21_Final]_vars

\* Last-Modified was copied by two informational writes and by the final
\* commit, and was sent once.
C21_Witness ==
    /\ given = <<100, 100, 404>> /\ w.headersSent
    /\ w.headerMap["Last-Modified"] = <<"Thu">>
    /\ \A i \in 1..3 : rw.calls[i].header["Last-Modified"] = <<"Thu">>
    /\ rw.sent["Last-Modified"] = <<"Thu">>

----------------------------------------------------------------------------
(* Properties of Flush.                                                    *)

\* A step in which the next handler called Flush on the wrapper.
FlushStep == fl' = fl + 1

C22_Frame ==
    FlushStep =>
        /\ w' = w
        /\ rw'.writes = rw.writes
        /\ rw'.header = rw.header /\ rw'.calls = rw.calls
        /\ IF rw.flusher THEN rw'.flushes = rw.flushes + 1 ELSE rw' = rw

\* C22: Flush on the wrapper calls the real writer's Flush when the real
\* writer is an http.Flusher and does nothing otherwise; either way the
\* wrapper's buffer, code, private headers and headersSent are as before and
\* no byte of the buffered body is written to the real writer.
C22_Flush == [][C22_Frame]_vars

\* A Flush reached the real writer while a body was buffered; the body was
\* still in the buffer, and not on the real writer, afterwards.
C22_Witness ==
    /\ pc = "serving" /\ rw.flusher /\ rw.flushes = 1 /\ fl = 1
    /\ w.buffer = <<"a", "b">> /\ rw.writes = <<>>
    /\ w.headersSent /\ w.code = 404

\* C25: the status code used to select the rewrite entry is the final status
\* the real writer committed, for every sequence of calls on the wrapper; the
\* real writer commits 200 by itself on its first body write or flush when no
\* status was written to it.
C25_SelectedIsCommitted ==
    pc = "done" => (rw.wroteHeader /\ w.code = rw.code)

\* Flush before any WriteHeader, then WriteHeader(404): 404 selects the
\* entry, 200 is what the real writer committed.
C25_Witness ==
    /\ pc = "done" /\ fl > 0 /\ given = <<404>>
    /\ w.code = 404 /\ rw.code = 200
    /\ ~Contains(responses[1].status, w.code)
    /\ Contains(responses[1].status, rw.code)
    /\ SentBody = <<"a">>

----------------------------------------------------------------------------
(* Properties of a hijacked request.                                       *)

\* Hijack succeeded for the request.
HijackSucceeded == \E i \in 1..Len(hj) : hj[i] = "conn"

\* C23: once Hijack has succeeded the middleware has no further rewrite role:
\* when the next handler has returned, ServeHTTP has applied no rewrite and
\* made no body write on the real writer.
C23_NoWriteAfterHijack ==
    (pc = "done" /\ HijackSucceeded) => rw.writes = <<>>

\* After a successful Hijack and nothing else ServeHTTP rewrote the empty
\* body and called Write on the real writer, which failed.
C23_Witness ==
    /\ pc = "done" /\ hj = <<"conn">> /\ ncalls = 1
    /\ w.buffer = <<>>
    /\ rw.writes = << <<"b">> >> /\ rw.writeErr

----------------------------------------------------------------------------
(* Properties of the headers and of the rewrite decision when ServeHTTP    *)
(* has returned.                                                           *)

\* C24: for every sequence of calls of the next handler, one that only sets
\* headers through Header() and returns included, every header set in the
\* private collection (Content-Length aside) is on the real writer when
\* ServeHTTP makes the final body write, the point at which the real writer
\* sends its headers.
C24_PrivateHeadersSent ==
    pc = "done" =>
        \A k \in Keys \ {"Content-Length"} :
            w.headerMap[k] # <<>> => rw.sent[k] = w.headerMap[k]

\* The handler set Last-Modified and returned: the real writer committed 200
\* on the body write without it.
C24_Witness ==
    /\ pc = "done" /\ ncalls = 1 /\ given = <<>> /\ written = <<>>
    /\ w.headerMap["Last-Modified"] = <<"Thu">>
    /\ rw.wroteHeader /\ rw.code = 200
    /\ rw.sent = EmptyHeader /\ rw.header = EmptyHeader

C26_AbsentStaysAbsent ==
    CommitStep =>
        \A k \in Keys : w.headerMap[k] = <<>> => rw'.sent[k] = <<>>

\* C26: the headers sent with the final status are the private collection at
\* the commit: a key an informational status write copied to the real writer
\* and the handler then deleted from the private collection is not on the
\* real writer at the final status write.
C26_SentIsPrivateAtCommit == [][C26_AbsentStaysAbsent]_vars

\* Last-Modified was set, copied by WriteHeader(100), deleted, and sent with
\* the final 404 all the same.
C26_Witness ==
    /\ given = <<100, 404>> /\ ncalls = 4 /\ w.headersSent
    /\ w.headerMap = EmptyHeader
    /\ rw.calls[1].header["Last-Modified"] = <<"Thu">>
    /\ rw.sent["Last-Modified"] = <<"Thu">>

\* The Content-Encoding the real writer sent with the final status.
SentEncoding == Get(rw.sent, "Content-Encoding")

\* C27: whether the rewrite is skipped depends only on the Content-Encoding
\* sent with the committed final headers; one set or removed through Header()
\* after the commit does not change whether the body is rewritten.
C27_DecisionBySentEncoding ==
    pc = "done" =>
        SentBody = IF SkipsRewrite(SentEncoding) THEN w.buffer
                   ELSE RewriteBody(responses, w.code, w.buffer)

\* gzip was sent with the status and the body was rewritten all the same,
\* because the handler removed or replaced Content-Encoding after the commit.
C27_Witness ==
    /\ pc = "done" /\ w.headersSent
    /\ SentEncoding = "gzip" /\ SeenEncoding \in {"", "identity"}
    /\ w.buffer = <<"a">> /\ SentBody # w.buffer

====
